---- MODULE Spec2Model ----
(***************************************************************************)
(* RsaPrivateKeySecret (lib/code-signing/private-key.ts): the construct    *)
(* that wires a custom resource generating an RSA key into Secrets         *)
(* Manager, the IAM / KMS statements it composes, the dependency edges it  *)
(* adds, and the grantGetSecretValue operation.                            *)
(*                                                                         *)
(* Strings are sequences of atoms: an atom is one character ("a", "-",     *)
(* "?") or one indivisible piece of text or deploy-time token              *)
(* ("secretsmanager", "${Role.Arn}").                                      *)
(***************************************************************************)
EXTENDS Naturals, Sequences, FiniteSets, TLC

\* ------------------------------------------------------------------ bounds
MaxSecrets == 2
MaxGrants == 2
MaxNameLen == 2

\* Number of single-character wildcards appended to the secret name.
SuffixLen == 6

\* ------------------------------------------------------------------ inputs
Undefined == <<"undefined">>
Retain == <<"Retain">>
Delete == <<"Delete">>

NoKey == 0
Keys == {1}

NameChars == {"a", "-"}
AlnumChars == {"a"}
WildChars == {"?", "*"}
Chars == NameChars \cup WildChars

Regions == {"us-east-1", "eu-west-1"}
Principals == {<<"X">>, <<"Y">>}

\* Key sizes the generation backend accepts; 0 stands for a bad key size.
AcceptedKeySizes == {2048}

\* The props the constructor is called with: a valid spec, a spec with a bad key
\* size (and an explicit deletion policy) and a spec with an empty name, each with
\* and without an encryption key.
RsaPrivateKeySecretProps ==
    {[secretName |-> sp[1], keySize |-> sp[2], description |-> Undefined,
      secretEncryptionKey |-> k, deletionPolicy |-> sp[3]] :
        sp \in {<<(<<"a", "-">>), 2048, Undefined>>, <<(<<"a", "-">>), 0, Delete>>,
                <<(<< >>), 2048, Undefined>>},
        k \in {NoKey} \cup Keys}

\* ------------------------------------------------------------------ state
VARIABLES
    region,        \* cdk.Stack.find(this).region
    fnCreated,     \* the SingletonFunction (and its role) exists in the stack
    rolePolicy,    \* statements on the handler's role (addToRolePolicy)
    keyPolicy,     \* key -> statements of the key's resource policy
    policies,      \* separate iam.Policy objects (GrantLambdaRoleKeyAccess)
    resources,     \* the cfn.CustomResource of every construct
    deps,          \* explicit node.addDependency edges <<from, to>>
    secrets,       \* the RsaPrivateKeySecret objects: secretArn, secretArnLike, masterKey
    granteePolicy, \* principal -> statements added with grantee.addToPolicy
    grantLog,      \* the grantGetSecretValue calls made so far, in order
    phase,         \* "synth" while constructs are built, "deploy" afterwards
    done,          \* role / function / key / policy operations completed
    status,        \* per secret: Requested, Provisioning, Ready, Failed
    arn,           \* per secret: the ARN the backend returned, Undefined before
    arnName, arnCand, arnPattern, arnMatch  \* ARN pattern resolution and matching

vars == <<region, fnCreated, rolePolicy, keyPolicy, policies, resources, deps,
          secrets, granteePolicy, grantLog, phase, done, status, arn,
          arnName, arnCand, arnPattern, arnMatch>>

synthVars == <<region, fnCreated, rolePolicy, keyPolicy, policies, resources,
               deps, secrets, granteePolicy, grantLog>>
arnVars == <<arnName, arnCand, arnPattern, arnMatch>>

Range(s) == {s[i] : i \in DOMAIN s}

\* ------------------------------------------------------------------ tokens
RoleArn == <<"${Role.Arn}">>
FunctionName == "${Function.Ref}"
KeyArn(k) == <<"${Key.Arn}", ToString(k)>>
HandlerHash == <<"${hashFileOrDirectory}">>

RoleNode == <<"role", 0>>
FnNode == <<"fn", 0>>
KeyNode(k) == <<"key", k>>
PolicyNode(i) == <<"policy", i>>
SecretNode(i) == <<"secret", i>>

\* Stack.formatArn: arn:partition:service:region:account:resource<sep>resourceName
FormatArn(service, rgn, resource, sep, resourceName) ==
    <<"arn", ":", "aws", ":", service, ":", rgn, ":", "account", ":", resource, sep>>
        \o resourceName

Wildcards(n) == [i \in 1..n |-> "?"]

SecretArnLike_Star(secretName, rgn) ==
    FormatArn("secretsmanager", rgn, "secret", ":", secretName \o <<"-", "*">>)

SecretArnLike(secretName, rgn) ==
    FormatArn("secretsmanager", rgn, "secret", ":",
              secretName \o <<"-">> \o Wildcards(SuffixLen))

\* privateKey.getAtt('SecretArn').toString(): a deploy-time reference
SecretArnAttr_Literal(id, secretName, rgn) ==
    FormatArn("secretsmanager", rgn, "secret", ":", secretName)

SecretArnAttr(id, secretName, rgn) == <<"${Resource.SecretArn}", ToString(id)>>

ViaService(rgn) == <<"secretsmanager", ".", rgn, ".", "amazonaws.com">>

\* props.secretName.replace(/[^0-9A-Za-z]/g, '')
StripNonAlnum(s) == SelectSeq(s, LAMBDA c : c \in AlnumChars)

\* ------------------------------------------------------------------ statements
Statement(sid, principals, actions, res, conditions) ==
    [sid |-> sid, principals |-> principals, actions |-> actions,
     resources |-> res, conditions |-> conditions]

Condition(op, key, values) == [op |-> op, key |-> key, values |-> values]

KmsActions == {"kms:Decrypt", "kms:GenerateDataKey"}
LifecycleActions ==
    {"secretsmanager:CreateSecret", "secretsmanager:DeleteSecret",
     "secretsmanager:UpdateSecret"}
SecretArnKey == "kms:EncryptionContext:SecretARN"
ViaServiceKey == "kms:ViaService"

LifecycleStatement(arnLike) ==
    Statement(<< >>, {}, LifecycleActions, {arnLike}, {})

KeyResourceStatement(arnLike, rgn) ==
    Statement(<<"Allow use via AWS Secrets Manager by CustomResource handler ",
                FunctionName>>,
              {RoleArn}, KmsActions, {<<"*">>},
              {Condition("StringEquals", ViaServiceKey, {ViaService(rgn)}),
               Condition("ArnLike", SecretArnKey, {arnLike})})

KeyGrantStatement(props, arnLike, rgn) ==
    Statement(<<"AWSSecretsManager">> \o StripNonAlnum(props.secretName) \o <<"CMK">>,
              {}, KmsActions, {KeyArn(props.secretEncryptionKey)},
              {Condition("StringEquals", ViaServiceKey, {ViaService(rgn)}),
               Condition("StringLike", SecretArnKey,
                         {arnLike, <<"RequestToValidateKeyAccess">>})})


\* ------------------------------------------------------------------ grants
SecretValueStatement(secret) ==
    Statement(<< >>, {}, {"secretsmanager:GetSecretValue"}, {secret.secretArn}, {})

GrantKeyResourceStatement(secret, grantee, rgn) ==
    Statement(<< >>, {grantee}, {"kms:Decrypt"}, {<<"*">>},
              {Condition("StringEquals", ViaServiceKey, {ViaService(rgn)}),
               Condition("ArnLike", SecretArnKey, {secret.secretArnLike})})

GrantKeyPrincipalStatement_NoViaService(secret, rgn) ==
    Statement(<< >>, {}, {"kms:Decrypt"}, {KeyArn(secret.masterKey)},
              {Condition("ArnEquals", SecretArnKey, {secret.secretArn})})

GrantKeyPrincipalStatement(secret, rgn) ==
    Statement(<< >>, {}, {"kms:Decrypt"}, {KeyArn(secret.masterKey)},
              {Condition("StringEquals", ViaServiceKey, {ViaService(rgn)}),
               Condition("ArnEquals", SecretArnKey, {secret.secretArn})})

\* A variant that overwrites the policies it touches instead of appending.
GrantGetSecretValue_Overwrite(ps, secret, grantee, rgn) ==
    IF secret.masterKey # NoKey
    THEN [grantee |-> [ps.grantee EXCEPT ![grantee] =
                          <<SecretValueStatement(secret),
                            GrantKeyPrincipalStatement(secret, rgn)>>],
          key |-> [ps.key EXCEPT ![secret.masterKey] =
                          <<GrantKeyResourceStatement(secret, grantee, rgn)>>]]
    ELSE [grantee |-> [ps.grantee EXCEPT ![grantee] = <<SecretValueStatement(secret)>>],
          key |-> ps.key]

\* A variant that numbers each statement it adds by its position in the policy.
GrantGetSecretValue_Numbered(ps, secret, grantee, rgn) ==
    LET n == ToString(Len(ps.grantee[grantee]))
        g1 == Append(ps.grantee[grantee],
                     [SecretValueStatement(secret) EXCEPT !.sid = <<"Grant", n>>])
    IN  IF secret.masterKey # NoKey
        THEN [grantee |-> [ps.grantee EXCEPT ![grantee] =
                              Append(g1, GrantKeyPrincipalStatement(secret, rgn))],
              key |-> [ps.key EXCEPT ![secret.masterKey] =
                              Append(@, GrantKeyResourceStatement(secret, grantee, rgn))]]
        ELSE [grantee |-> [ps.grantee EXCEPT ![grantee] = g1], key |-> ps.key]

\* grantGetSecretValue, as a function of the policies it mutates:
\* ps.grantee[p] is the policy of principal p, ps.key[k] the resource policy of key k.
GrantGetSecretValue(ps, secret, grantee, rgn) ==
    LET g1 == Append(ps.grantee[grantee], SecretValueStatement(secret))
    IN  IF secret.masterKey # NoKey
        THEN [grantee |-> [ps.grantee EXCEPT ![grantee] =
                              Append(g1, GrantKeyPrincipalStatement(secret, rgn))],
              key |-> [ps.key EXCEPT ![secret.masterKey] =
                              Append(@, GrantKeyResourceStatement(secret, grantee, rgn))]]
        ELSE [grantee |-> [ps.grantee EXCEPT ![grantee] = g1], key |-> ps.key]

PolicyState == [grantee |-> granteePolicy, key |-> keyPolicy]

\* ------------------------------------------------------------------ constructor
DeletionPolicyOf(props) ==
    IF props.deletionPolicy = Undefined THEN Retain ELSE props.deletionPolicy

\* customResource.role: the SingletonFunction is built without a role prop, so the
\* function owns a role of its own.
HandlerRole == RoleNode
NoRole == <<"none", 0>>

RoleStatements_InlineKeyGrant(props, arnLike, rgn) ==
    IF props.secretEncryptionKey # NoKey
    THEN <<LifecycleStatement(arnLike), KeyGrantStatement(props, arnLike, rgn)>>
    ELSE <<LifecycleStatement(arnLike)>>

RoleStatements_Twice(props, arnLike, rgn) ==
    <<LifecycleStatement(arnLike), LifecycleStatement(arnLike)>>

\* customResource.addToRolePolicy(...): what the constructor adds to the role
RoleStatements(props, arnLike, rgn) == <<LifecycleStatement(arnLike)>>

\* props.secretEncryptionKey.addToResourcePolicy(...): what it adds to the key
KeyResourceStatements(props, arnLike, rgn) ==
    IF props.secretEncryptionKey # NoKey
    THEN <<KeyResourceStatement(arnLike, rgn)>>
    ELSE << >>

\* new cfn.CustomResource(this, 'Resource', {...})
CustomResource(id, props) ==
    [id |-> id,
     resourceType |-> "Custom::RsaPrivateKeySecret",
     lambdaProvider |-> FnNode,
     properties |->
        [resourceVersion |-> HandlerHash,
         description |-> props.description,
         keySize |-> props.keySize,
         secretName |-> props.secretName,
         kmsKeyId |-> IF props.secretEncryptionKey # NoKey
                      THEN KeyArn(props.secretEncryptionKey) ELSE Undefined],
     deletionPolicy |-> DeletionPolicyOf(props)]

\* new iam.Policy(this, 'GrantLambdaRoleKeyAccess', {...})
GrantLambdaRoleKeyAccess(id, props, arnLike, rgn) ==
    IF HandlerRole # NoRole /\ props.secretEncryptionKey # NoKey
    THEN {[id |-> id, name |-> "GrantLambdaRoleKeyAccess", roles |-> {HandlerRole},
           statements |-> <<KeyGrantStatement(props, arnLike, rgn)>>]}
    ELSE {}

SecretDependencies_RoleOnly(id, props) ==
    IF HandlerRole # NoRole THEN {<<SecretNode(id), HandlerRole>>} ELSE {}

\* privateKey.node.addDependency(...): the edges the constructor adds
SecretDependencies(id, props) ==
    IF HandlerRole # NoRole
    THEN {<<SecretNode(id), HandlerRole>>}
         \cup (IF props.secretEncryptionKey # NoKey
               THEN {<<SecretNode(id), PolicyNode(id)>>} ELSE {})
    ELSE {}


\* ------------------------------------------------------------------ matching
\* IAM's ArnLike / StringLike: "*" matches any run of characters, "?" exactly one
\* character, everything else itself.
RECURSIVE Like(_, _)
Like(pattern, s) ==
    IF pattern = << >> THEN s = << >>
    ELSE IF Head(pattern) = "*"
         THEN Like(Tail(pattern), s) \/ (s # << >> /\ Like(pattern, Tail(s)))
         ELSE /\ s # << >>
              /\ \/ Head(pattern) = "?" /\ Head(s) \in Chars
                 \/ Head(pattern) = Head(s)
              /\ Like(Tail(pattern), Tail(s))

SeqsUpTo(S, n) == UNION {[1..k -> S] : k \in 0..n}

\* Secret names Secrets Manager accepts hold no wildcard characters.
ValidSecretNames == SeqsUpTo(NameChars, MaxNameLen) \ {<< >>}
CandidateNames == SeqsUpTo(NameChars, MaxNameLen + 1 + SuffixLen + 1)
CandidateArns ==
    {FormatArn("secretsmanager", r, "secret", ":", n) :
        r \in Regions, n \in CandidateNames}

\* ------------------------------------------------------------------ graph
\* References between resources of the template (Ref / Fn::GetAtt), which order
\* the deployment like explicit dependencies do.
RefEdges ==
    (IF fnCreated THEN {<<FnNode, RoleNode>>} ELSE {})
    \cup {<<KeyNode(k), RoleNode>> : k \in
             {k \in Keys : \E st \in Range(keyPolicy[k]) : RoleArn \in st.principals}}
    \cup {<<KeyNode(k), FnNode>> : k \in
             {k \in Keys : \E st \in Range(keyPolicy[k]) : FunctionName \in Range(st.sid)}}
    \cup {<<RoleNode, KeyNode(k)>> : k \in
             {k \in Keys : \E st \in Range(rolePolicy) : KeyArn(k) \in st.resources}}
    \cup UNION {{<<PolicyNode(p.id), r>> : r \in p.roles} : p \in policies}
    \cup UNION {{<<PolicyNode(p.id), KeyNode(k)>> : k \in
                   {k \in Keys : \E st \in Range(p.statements) : KeyArn(k) \in st.resources}}
                : p \in policies}
    \cup {<<SecretNode(r.id), r.lambdaProvider>> : r \in Range(resources)}
    \cup UNION {{<<SecretNode(r.id), KeyNode(k)>> : k \in
                   {k \in Keys : r.properties.kmsKeyId = KeyArn(k)}}
                : r \in Range(resources)}

Edges == deps \cup RefEdges

InfraNodes ==
    (IF fnCreated THEN {RoleNode, FnNode} ELSE {})
    \cup {KeyNode(k) : k \in Keys}
    \cup {PolicyNode(p.id) : p \in policies}

Nodes == InfraNodes \cup {SecretNode(i) : i \in DOMAIN secrets}

Completed(n) ==
    IF n[1] = "secret" THEN status[n[2]] = "Ready" ELSE n \in done

DependenciesMet(n) == \A e \in Edges : e[1] = n => Completed(e[2])

RECURSIVE ReachIn(_, _, _)
ReachIn(from, E, k) ==
    IF k = 0 THEN from
    ELSE LET more == from \cup {e[2] : e \in {e \in E : e[1] \in from}}
         IN  IF more = from THEN from ELSE ReachIn(more, E, k - 1)

\* the nodes reachable from n along one or more edges of E
Reachable(n, E) ==
    ReachIn({e[2] : e \in {e \in E : e[1] = n}}, E, Cardinality(E))

\* ------------------------------------------------------------------ actions
IdleArn ==
    /\ arnName = << >> /\ arnCand = << >> /\ arnPattern = << >> /\ arnMatch = "unset"

Init ==
    /\ region \in Regions
    /\ fnCreated = FALSE
    /\ rolePolicy = << >>
    /\ keyPolicy = [k \in Keys |-> << >>]
    /\ policies = {}
    /\ resources = << >>
    /\ deps = {}
    /\ secrets = << >>
    /\ granteePolicy = [p \in Principals |-> << >>]
    /\ grantLog = << >>
    /\ phase = "synth"
    /\ done = {}
    /\ status = << >>
    /\ arn = << >>
    /\ IdleArn

\* What the generation backend would accept (spec section 3 and 7).
ValidSpec(props) ==
    props.keySize \in AcceptedKeySizes /\ props.secretName # << >>

ConstructorAccepts_Validating(props) == ValidSpec(props)

\* The constructor throws on no props value: it holds no check of keySize or
\* secretName.
ConstructorAccepts(props) == TRUE

\* new RsaPrivateKeySecret(parent, id, props)
Create(props) ==
    /\ phase = "synth"
    /\ Len(secrets) < MaxSecrets
    /\ ConstructorAccepts(props)
    /\ LET id == Len(secrets) + 1
           arnLike == SecretArnLike(props.secretName, region)
           key == props.secretEncryptionKey
       IN  /\ fnCreated' = TRUE
           /\ rolePolicy' = rolePolicy \o RoleStatements(props, arnLike, region)
           /\ keyPolicy' =
                IF key # NoKey
                THEN [keyPolicy EXCEPT ![key] = @ \o KeyResourceStatements(props, arnLike, region)]
                ELSE keyPolicy
           /\ resources' = Append(resources, CustomResource(id, props))
           /\ deps' = deps \cup SecretDependencies(id, props)
           /\ policies' = policies \cup GrantLambdaRoleKeyAccess(id, props, arnLike, region)
           /\ secrets' = Append(secrets,
                [secretArn |-> SecretArnAttr(id, props.secretName, region),
                 secretArnLike |-> arnLike,
                 masterKey |-> key])
           /\ status' = Append(status, "Requested")
           /\ arn' = Append(arn, Undefined)
    /\ UNCHANGED <<region, granteePolicy, grantLog, phase, done>>
    /\ UNCHANGED arnVars

\* secret.grantGetSecretValue(grantee), secret being the i-th construct
Grant(i, grantee) ==
    /\ phase = "synth"
    /\ i \in DOMAIN secrets
    /\ Len(grantLog) < MaxGrants
    /\ LET ps == GrantGetSecretValue(PolicyState, secrets[i], grantee, region)
       IN  /\ granteePolicy' = ps.grantee
           /\ keyPolicy' = ps.key
    /\ grantLog' = Append(grantLog, <<i, grantee>>)
    /\ UNCHANGED <<region, fnCreated, rolePolicy, policies, resources, deps, secrets,
                   phase, done, status, arn>>
    /\ UNCHANGED arnVars

\* The template is handed to the provisioning engine.
StartDeploy ==
    /\ phase = "synth"
    /\ phase' = "deploy"
    /\ UNCHANGED synthVars
    /\ UNCHANGED <<done, status, arn>>
    /\ UNCHANGED arnVars

\* A role, function, key or policy operation runs once its predecessors completed.
Complete(n) ==
    /\ phase = "deploy"
    /\ n \in InfraNodes \ done
    /\ DependenciesMet(n)
    /\ done' = done \cup {n}
    /\ UNCHANGED synthVars
    /\ UNCHANGED <<phase, status, arn>>
    /\ UNCHANGED arnVars

\* The provisioning request of secret i is sent to the backend.
Dispatch(i) ==
    /\ phase = "deploy"
    /\ i \in DOMAIN secrets
    /\ status[i] = "Requested"
    /\ DependenciesMet(SecretNode(i))
    /\ status' = [status EXCEPT ![i] = "Provisioning"]
    /\ UNCHANGED synthVars
    /\ UNCHANGED <<phase, done, arn>>
    /\ UNCHANGED arnVars

\* The backend reports Success with the ARN of the secret it created.
BackendSuccess(i) ==
    /\ phase = "deploy"
    /\ i \in DOMAIN secrets
    /\ status[i] = "Provisioning"
    /\ status' = [status EXCEPT ![i] = "Ready"]
    /\ \E c \in NameChars :
          arn' = [arn EXCEPT ![i] =
                    FormatArn("secretsmanager", region, "secret", ":",
                              resources[i].properties.secretName \o <<"-">>
                                  \o [j \in 1..SuffixLen |-> c])]
    /\ UNCHANGED synthVars
    /\ UNCHANGED <<phase, done>>
    /\ UNCHANGED arnVars

\* The create fails: terminal, no ARN is returned.
Fail(i) ==
    /\ phase = "deploy"
    /\ i \in DOMAIN secrets
    /\ status[i] = "Requested"
    /\ status' = [status EXCEPT ![i] = "Failed"]
    /\ UNCHANGED synthVars
    /\ UNCHANGED <<phase, done, arn>>
    /\ UNCHANGED arnVars

\* The constructs of src/: the app builds secrets and grants access to them.
Next ==
    \/ \E props \in RsaPrivateKeySecretProps : Create(props)
    \/ \E i \in 1..MaxSecrets, g \in Principals : Grant(i, g)

Spec == Init /\ [][Next]_vars

\* The app builds secrets, then the provisioning engine executes the template.
NextDeploy ==
    \/ \E props \in RsaPrivateKeySecretProps : Create(props)
    \/ StartDeploy
    \/ \E n \in InfraNodes : Complete(n)
    \/ \E i \in 1..MaxSecrets : Dispatch(i)
    \/ \E i \in 1..MaxSecrets : BackendSuccess(i)
    \/ \E i \in 1..MaxSecrets : Fail(i)

SpecDeploy == Init /\ [][NextDeploy]_vars

\* ------------------------------------------------------------------ pattern check
InitArn ==
    /\ region \in Regions
    /\ fnCreated = FALSE
    /\ rolePolicy = << >>
    /\ keyPolicy = [k \in Keys |-> << >>]
    /\ policies = {}
    /\ resources = << >>
    /\ deps = {}
    /\ secrets = << >>
    /\ granteePolicy = [p \in Principals |-> << >>]
    /\ grantLog = << >>
    /\ phase = "synth"
    /\ done = {}
    /\ status = << >>
    /\ arn = << >>
    /\ arnName \in ValidSecretNames
    /\ arnCand \in CandidateArns
    /\ arnPattern = << >>
    /\ arnMatch = "unset"

\* The constructor resolves the pattern of arnName; the pattern is matched
\* against the candidate ARN.
ResolveAndMatch ==
    /\ arnMatch = "unset"
    /\ arnPattern' = SecretArnLike(arnName, region)
    /\ arnMatch' = IF Like(SecretArnLike(arnName, region), arnCand) THEN "yes" ELSE "no"
    /\ UNCHANGED <<arnName, arnCand>>
    /\ UNCHANGED synthVars
    /\ UNCHANGED <<phase, done, status, arn>>

NextArn == ResolveAndMatch

SpecArn == InitArn /\ [][NextArn]_vars


\* ------------------------------------------------------------------ claims
HasKey(i) == secrets[i].masterKey # NoKey
ExplicitDeps(i) == {e \in deps : e[1] = SecretNode(i)}
Dispatched(i) == status[i] \in {"Provisioning", "Ready"}

\* C1: the secret operation is dispatched only after the role completed and, with a
\* key, after the separate key-grant policy completed; create always adds the edge
\* secret -> role, adds secret -> key-grant policy exactly when a key is supplied,
\* and adds only the edge to the role when there is no key.
C1_SecretAfterRoleAndKeyGrant ==
    \A i \in DOMAIN secrets :
        /\ <<SecretNode(i), RoleNode>> \in deps
        /\ (<<SecretNode(i), PolicyNode(i)>> \in deps) <=> HasKey(i)
        /\ (PolicyNode(i) \in InfraNodes) <=> HasKey(i)
        /\ ~HasKey(i) => ExplicitDeps(i) = {<<SecretNode(i), RoleNode>>}
        /\ Dispatched(i) =>
              /\ RoleNode \in done
              /\ HasKey(i) => PolicyNode(i) \in done

C1_Witness ==
    \E i, j \in DOMAIN secrets :
        /\ HasKey(i) /\ status[i] = "Provisioning"
        /\ ~HasKey(j) /\ status[j] = "Ready"

\* C2: the dependency graph over role, function, key, key-grant policies and secrets
\* is acyclic with and without a key: never both role -> key-grant policy and
\* key-grant policy -> role, and the role never depends on the key although the
\* key's resource policy references the role.
C2_GraphAcyclic ==
    LET E == Edges
    IN  /\ \A n \in Nodes : n \notin Reachable(n, E)
        /\ \A p \in policies :
              ~(<<RoleNode, PolicyNode(p.id)>> \in E /\ <<PolicyNode(p.id), RoleNode>> \in E)
        /\ \A k \in Keys :
              /\ <<RoleNode, KeyNode(k)>> \notin E
              /\ KeyNode(k) \notin Reachable(RoleNode, E)
              /\ (\E i \in DOMAIN secrets : secrets[i].masterKey = k)
                    => <<KeyNode(k), RoleNode>> \in E

C2_Witness ==
    \E i, j \in DOMAIN secrets :
        /\ HasKey(i) /\ ~HasKey(j)
        /\ <<KeyNode(secrets[i].masterKey), RoleNode>> \in Edges
        /\ <<PolicyNode(i), RoleNode>> \in Edges

IsPrefix(s, t) == Len(s) <= Len(t) /\ SubSeq(t, 1, Len(s)) = s

AppendOnlyStep ==
    /\ IsPrefix(rolePolicy, rolePolicy')
    /\ \A k \in Keys : IsPrefix(keyPolicy[k], keyPolicy'[k])
    /\ \A p \in Principals : IsPrefix(granteePolicy[p], granteePolicy'[p])

\* principal g holds its own decrypt grant for secret i, scoped to i's exact ARN,
\* and the key's resource policy holds the matching statement for g
HoldsDecryptGrant(i, g) ==
    /\ \E st \in Range(granteePolicy[g]) :
          /\ st.actions = {"kms:Decrypt"}
          /\ st.resources = {KeyArn(secrets[i].masterKey)}
          /\ \E c \in st.conditions :
                c.op = "ArnEquals" /\ c.key = SecretArnKey
                    /\ c.values = {secrets[i].secretArn}
    /\ \E st \in Range(keyPolicy[secrets[i].masterKey]) :
          /\ st.actions = {"kms:Decrypt"}
          /\ st.principals = {g}
    /\ \E st \in Range(granteePolicy[g]) :
          /\ st.actions = {"secretsmanager:GetSecretValue"}
          /\ st.resources = {secrets[i].secretArn}

GrantsHeld ==
    \A n \in DOMAIN grantLog :
        HasKey(grantLog[n][1]) => HoldsDecryptGrant(grantLog[n][1], grantLog[n][2])

\* C3: policy composition is append-only: every step keeps each statement already on
\* the role, on the key's resource policy and on every grantee, in place and
\* unchanged; every principal granted read access to a secret with a key still holds
\* its decrypt grant scoped to the secret's exact ARN after any later grant.
C3_AppendOnly == [][AppendOnlyStep]_vars /\ []GrantsHeld

C3_Witness ==
    \E i \in DOMAIN secrets :
        /\ HasKey(i)
        /\ grantLog = << <<i, <<"X">> >>, <<i, <<"Y">> >> >>
        /\ HoldsDecryptGrant(i, <<"X">>)
        /\ HoldsDecryptGrant(i, <<"Y">>)

\* the granted permissions of a policy state: the set of distinct statements on
\* each principal and on each key's resource policy
Semantics(ps) ==
    [grantee |-> [p \in Principals |-> Range(ps.grantee[p])],
     key |-> [k \in Keys |-> Range(ps.key[k])]]

\* C4: in every reachable policy state, for every secret and principal, granting
\* twice yields the same sets of distinct statements as granting once.
C4_GrantIdempotent ==
    \A i \in DOMAIN secrets, g \in Principals :
        LET once == GrantGetSecretValue(PolicyState, secrets[i], g, region)
            twice == GrantGetSecretValue(once, secrets[i], g, region)
        IN  Semantics(twice) = Semantics(once)

C4_Witness ==
    \E i \in DOMAIN secrets, g \in Principals :
        /\ HasKey(i)
        /\ grantLog = << <<i, g>>, <<i, g>> >>
        /\ Len(granteePolicy[g]) > Cardinality(Range(granteePolicy[g]))
        /\ Semantics(GrantGetSecretValue(PolicyState, secrets[i], g, region))
              = Semantics(PolicyState)

KeyedSecrets(k) == {i \in DOMAIN secrets : secrets[i].masterKey = k}
RoleSideKeyStatements(k) ==
    {n \in DOMAIN keyPolicy[k] : RoleArn \in keyPolicy[k][n].principals}
PoliciesOf(i) == {p \in policies : p.id = i}

\* C5: every create puts exactly one lifecycle statement, on the secret's pattern
\* only, on the handler's role; without a key it produces no key statement; with a
\* key it produces exactly one statement on the key's resource policy and exactly
\* one key-grant statement, held in a separate policy attached to the role and not
\* inline on the role, and the secret depends on that policy, not on the key.
C5_StatementsPerCreate ==
    /\ Len(rolePolicy) = Len(secrets)
    /\ \A i \in DOMAIN secrets :
          /\ rolePolicy[i].actions = LifecycleActions
          /\ rolePolicy[i].resources =
                {SecretArnLike(resources[i].properties.secretName, region)}
          /\ rolePolicy[i].resources = {secrets[i].secretArnLike}
          /\ ~HasKey(i) => PoliciesOf(i) = {}
          /\ HasKey(i) =>
                /\ Cardinality(PoliciesOf(i)) = 1
                /\ \A p \in PoliciesOf(i) :
                      /\ p.roles = {RoleNode}
                      /\ Len(p.statements) = 1
                      /\ p.statements[1].actions = KmsActions
                      /\ p.statements[1].resources = {KeyArn(secrets[i].masterKey)}
                /\ <<SecretNode(i), PolicyNode(i)>> \in deps
          /\ \A k \in Keys : <<SecretNode(i), KeyNode(k)>> \notin deps
    /\ \A st \in Range(rolePolicy) : st.actions \cap KmsActions = {}
    /\ \A k \in Keys :
          Cardinality(RoleSideKeyStatements(k)) = Cardinality(KeyedSecrets(k))
    /\ Cardinality(policies) = Cardinality(UNION {KeyedSecrets(k) : k \in Keys})

C5_Witness ==
    \E i, j \in DOMAIN secrets :
        /\ HasKey(i) /\ ~HasKey(j)
        /\ Len(rolePolicy) = 2
        /\ Cardinality(policies) = 1
        /\ Len(keyPolicy[secrets[i].masterKey]) = 1

\* what the construct's secretArn stands for at this point of the deployment: a
\* reference to the resource's SecretArn attribute has a value once the backend
\* returned one
ResolvedSecretArn(i) ==
    IF secrets[i].secretArn[1] = "${Resource.SecretArn}" THEN arn[i]
    ELSE secrets[i].secretArn

StatusStep ==
    \A i \in DOMAIN status :
        \/ status'[i] = status[i]
        \/ <<status[i], status'[i]>> \in
              {<<"Requested", "Provisioning">>, <<"Provisioning", "Ready">>,
               <<"Requested", "Failed">>}

ArnOnlyOnSuccess ==
    \A i \in DOMAIN secrets :
        /\ status[i] \in {"Requested", "Provisioning", "Ready", "Failed"}
        /\ ResolvedSecretArn(i) # Undefined => status[i] = "Ready"

InvalidRequest(i) ==
    \/ resources[i].properties.keySize \notin AcceptedKeySizes
    \/ resources[i].properties.secretName = << >>

C8_OneInFlightPerName ==
    \A i, j \in DOMAIN resources :
        (/\ i # j
         /\ ~InvalidRequest(i) /\ ~InvalidRequest(j)
         /\ resources[i].properties.secretName = resources[j].properties.secretName)
            => ~(status[i] = "Provisioning" /\ status[j] = "Provisioning")

ExpectedArns(name, rgn) ==
    {FormatArn("secretsmanager", rgn, "secret", ":", name \o <<"-">> \o sfx) :
        sfx \in [1..SuffixLen -> NameChars]}

\* C9: the pattern computed for a valid secret name matches an ARN exactly when the
\* ARN is of the same service, region, account and resource type and its resource
\* name is the secret name, "-" and exactly six more characters.
C9_PatternMatchesSixSuffix ==
    arnMatch # "unset" =>
        /\ arnPattern = SecretArnLike(arnName, region)
        /\ (arnMatch = "yes") <=> (arnCand \in ExpectedArns(arnName, region))

C9_Witness ==
    /\ arnMatch = "yes"
    /\ Len(arnName) = MaxNameLen
    /\ arnCand \in ExpectedArns(arnName, region)

AllStatements ==
    Range(rolePolicy)
    \cup UNION {Range(keyPolicy[k]) : k \in Keys}
    \cup UNION {Range(p.statements) : p \in policies}
    \cup UNION {Range(granteePolicy[p]) : p \in Principals}

HasViaService(st) ==
    \E c \in st.conditions :
        c.op = "StringEquals" /\ c.key = ViaServiceKey
            /\ c.values = {ViaService(region)}

HasSecretReference(st) ==
    \E c \in st.conditions :
        /\ c.key = SecretArnKey
        /\ \E i \in DOMAIN secrets :
              \/ secrets[i].secretArnLike \in c.values
              \/ c.values = {secrets[i].secretArn}

\* C10: every statement granting kms:Decrypt or kms:GenerateDataKey, on the key's
\* resource policy, on a key-grant policy, on the role or on a grantee, carries the
\* via-service condition for the stack's region and a condition on the encryption
\* context's secret ARN.
C10_KeyUseConditioned ==
    \A st \in AllStatements :
        st.actions \cap KmsActions # {} => HasViaService(st) /\ HasSecretReference(st)

C10_Witness ==
    /\ \E k \in Keys : Len(keyPolicy[k]) >= 2
    /\ policies # {}
    /\ \E p \in Principals : \E st \in Range(granteePolicy[p]) : "kms:Decrypt" \in st.actions

====
